---- MODULE Spec2Model ----
(***************************************************************************)
(* Invoice lifecycle and stock ledger of adetta_lite.py.                   *)
(*                                                                         *)
(* The store is the relational database behind ENGINE; every execute() is  *)
(* one committed transaction (ENGINE.begin()), every load_df() one read    *)
(* that goes through the process-wide st.cache_data cache (ttl = 2 s).     *)
(* A session is one Streamlit script run; several sessions run the same    *)
(* script against the same store and the same cache.                      *)
(*                                                                         *)
(* Money is counted in units of 1e-6 (the overpayment tolerance), so that  *)
(* the tolerance is one unit and the smallest payment 0.01 is 10000 units. *)
(* Foreign keys are declared but not enforced (SQLite, the default         *)
(* ADETTA_DB, without PRAGMA foreign_keys).                                *)
(***************************************************************************)
EXTENDS Integers, Sequences, FiniteSets, TLC

VARIABLES
    stock,        \* products.stock, by product id
    price,        \* products.price, by product id (never updated)
    stock0,       \* products.stock as inserted by "Produkt anlegen"
    deliveries,   \* rows of table deliveries
    invoices,     \* rows of table invoices
    payments,     \* rows of table payments
    nextDel,      \* AUTOINCREMENT / SERIAL counters
    nextInv,
    nextPay,
    cache,        \* st.cache_data: memoised load_df / invoice_status results
    pc,           \* position of each session's script run
    loc,          \* local variables of each session's script run
    ev,           \* what the last step showed the user (st.error / st.success)
    ops,          \* handler runs accepted so far (bounds the model)
    sc,           \* the scenario: the bounds this behaviour is explored under
    rt            \* observer: a booking and the deletion that follows it at once

vars == <<stock, price, stock0, deliveries, invoices, payments,
          nextDel, nextInv, nextPay, cache, pc, loc, ev, ops, sc, rt>>

db == <<stock, deliveries, invoices, payments>>

----------------------------------------------------------------------------
\* Bounds of the model.  Interleaved sessions are explored under the smaller
\* ones, one session alone under the larger ones.

MaxStock == 1         \* initial stock of a product, sessions interleaved
MaxQty == 1           \* largest quantity typed, sessions interleaved
MaxOps == 3           \* handler runs accepted, sessions interleaved
MaxOpsFail == 2       \* handler runs accepted, on a store that can fail
MaxStockSeq == 2
MaxQtySeq == 2
MaxOpsSeq == 4
MaxOpsDate == 2       \* handler runs accepted, every customer and date
MaxDeliveries == 2    \* delivery rows ever inserted
MaxPayments == 2      \* payment rows ever inserted
Price == 20000        \* the price of product 1 (0.02)
Price2 == 10000       \* the price of product 2 when it has one (0.01)

Products == {1, 2}
Sessions == {1, 2}

\* Product 1 has a price; product 2 has one or none.
PriceLists == {[p \in Products |-> IF p = 1 THEN Price ELSE Price2],
               [p \in Products |-> IF p = 1 THEN Price ELSE 0]}

\* The customers "Kunde anlegen" has stored, by their payment terms in days
\* (min_value = 0, 30 unless changed).
DefaultTerms == 30    \* number_input("Zahlungsziel (Tage)", value=30)
Customers == 1..4
TermsOf == <<0, 1, DefaultTerms, 2 * DefaultTerms>>

\* Program constants, in units of 1e-6.
Eps == 1              \* amount > open_amt + 1e-6
MinAmount == 10000    \* number_input("Betrag", min_value=0.01)

\* The amounts typed: the smallest one, a product's price, and the price plus
\* one and two tolerances.
Amounts == {MinAmount, Price, Price + Eps, Price + 2 * Eps}

DelIds == 1..MaxDeliveries
InvIds == 1..MaxDeliveries

----------------------------------------------------------------------------
\* Helpers.

RECURSIVE SumAmounts(_)
SumAmounts(S) ==
    IF S = {} THEN 0
    ELSE LET x == CHOOSE y \in S : TRUE IN x.amount + SumAmounts(S \ {x})

RECURSIVE SortedSeq(_)
SortedSeq(S) ==
    IF S = {} THEN <<>>
    ELSE LET m == CHOOSE x \in S : \A y \in S : x <= y
         IN <<m>> \o SortedSeq(S \ {m})

MaxOf(S) == CHOOSE x \in S : \A y \in S : y <= x
MinOf(S) == CHOOSE x \in S : \A y \in S : x <= y

FirstRow(S) == CHOOSE r \in S : TRUE

\* COALESCE(SUM(amount),0) FROM payments WHERE invoice_id = i
SumPaid(i) == SumAmounts({p \in payments : p.invoice_id = i})

\* Decimal(str(unit_price)) * Decimal(str(qty))
InvoiceTotal(unit_price, qty) == unit_price * qty

----------------------------------------------------------------------------
\* datetime.date as the handler uses it: a date is a record [y, m, d]; what is
\* stored is its isoformat(), one string per date.  The model's dates stay far
\* from date.max, so that date + timedelta does not overflow.

NoDate == [y |-> 0, m |-> 0, d |-> 0]

\* The dates the date_input of the delivery form is given.
Dates ==
    {[y |-> 2023, m |-> 2, d |-> 28], [y |-> 2024, m |-> 2, d |-> 28],
     [y |-> 2024, m |-> 2, d |-> 29], [y |-> 2023, m |-> 12, d |-> 31],
     [y |-> 2024, m |-> 1, d |-> 31], [y |-> 2100, m |-> 2, d |-> 1],
     [y |-> 2000, m |-> 1, d |-> 31]}

\* datetime._is_leap, _days_before_year, _days_before_month, _ymd2ord
IsLeap(y) == y % 4 = 0 /\ (y % 100 # 0 \/ y % 400 = 0)

DaysBeforeYear(y) ==
    LET y1 == y - 1 IN y1 * 365 + (y1 \div 4) - (y1 \div 100) + (y1 \div 400)

DaysBeforeMonthTable == <<0, 31, 59, 90, 120, 151, 181, 212, 243, 273, 304, 334>>
DaysInMonthTable == <<31, 28, 31, 30, 31, 30, 31, 31, 30, 31, 30, 31>>

DaysBeforeMonth(y, m) ==
    DaysBeforeMonthTable[m] + (IF m > 2 /\ IsLeap(y) THEN 1 ELSE 0)

ToOrdinal(dt) == DaysBeforeYear(dt.y) + DaysBeforeMonth(dt.y, dt.m) + dt.d

\* datetime._ord2ymd
FromOrdinal(ord) ==
    LET n0 == ord - 1
        n400 == n0 \div 146097
        r400 == n0 % 146097
        n100 == r400 \div 36524
        r100 == r400 % 36524
        n4 == r100 \div 1461
        r4 == r100 % 1461
        n1 == r4 \div 365
        n == r4 % 365
        year == n400 * 400 + 1 + n100 * 100 + n4 * 4 + n1
        leapyear == n1 = 3 /\ (n4 # 24 \/ n100 = 3)
        month0 == (n + 50) \div 32
        preceding0 == DaysBeforeMonthTable[month0]
                          + (IF month0 > 2 /\ leapyear THEN 1 ELSE 0)
        back == preceding0 > n
        month == IF back THEN month0 - 1 ELSE month0
        preceding == IF back
                     THEN preceding0 - (DaysInMonthTable[month]
                              + (IF month = 2 /\ leapyear THEN 1 ELSE 0))
                     ELSE preceding0
    IN IF n1 = 4 \/ n100 = 4
       THEN [y |-> year - 1, m |-> 12, d |-> 31]
       ELSE [y |-> year, m |-> month, d |-> n - preceding + 1]

\* A due date that counts every month as 30 days long
DueDateThirty(ddate, cust_terms) ==
    LET k == (ddate.y * 12 + (ddate.m - 1)) * 30 + (ddate.d - 1) + cust_terms
    IN [y |-> k \div 360, m |-> ((k % 360) \div 30) + 1, d |-> (k % 30) + 1]

\* due = ddate + timedelta(days=cust_terms)
DueDate(ddate, cust_terms) == FromOrdinal(ToOrdinal(ddate) + cust_terms)

----------------------------------------------------------------------------
\* The queries the handlers run, evaluated on the committed store.

QProducts == stock

QLast ==
    {d.id : d \in {x \in deliveries : \E i \in invoices : i.delivery_id = x.id}}

QDelivery(i) == {d \in deliveries : d.id = i}

QInvoicesOf(d) == {i.id : i \in {x \in invoices : x.delivery_id = d}}

QInvoiceList ==
    {[rechnung |-> i.id, offen |-> i.total - SumPaid(i.id)] :
        i \in {x \in invoices : \E d \in deliveries : d.id = x.delivery_id}}

QInvoiceIds == {i.id : i \in invoices}

\* invoice_status, computed on the committed store
StatusOf(total, paid) ==
    IF paid = 0 THEN "open"
    ELSE IF paid < total THEN "partial"
    ELSE "paid"

InvoiceStatus(i) ==
    LET inv == {x \in invoices : x.id = i} IN
    IF inv = {} THEN "open"
    ELSE StatusOf(FirstRow(inv).total, SumPaid(i))

----------------------------------------------------------------------------
\* st.cache_data: an entry is <<>> (absent) or <<value>>.

NoCache ==
    [dfp |-> <<>>, dfl |-> <<>>, dfi |-> <<>>, ids |-> <<>>,
     drow |-> [d \in DelIds |-> <<>>],
     invof |-> [d \in DelIds |-> <<>>],
     status |-> [i \in InvIds |-> <<>>]]

\* What a memoised call can return: the stored value while the entry is there
\* and younger than ttl = 2 s, the freshly computed one otherwise.  Either way
\* the cache then holds the value returned.
Reads(entry, fresh) == {fresh} \cup (IF entry # <<>> THEN {entry[1]} ELSE {})

----------------------------------------------------------------------------
\* The exception a failed execute() shows, by the handler it ends
Failed(op) ==
    IF op = "Booked" THEN "BookingFailed"
    ELSE IF op = "Deleted" THEN "DeletionFailed"
    ELSE "PaymentFailed"

\* The locals of a handler run.  first: the invoice ids below it were in the
\* store when the booking wrote its first row.
Loc0 ==
    [op |-> "none", lines |-> <<>>, todo |-> <<>>, st |-> "open",
     del |-> 0, prod |-> 0, qty |-> 0, inv |-> 0, amount |-> 0,
     cust |-> 0, terms |-> 0, ddate |-> NoDate, first |-> 0]

\* type: what was shown; s: the session; n: its argument; req: the request of
\* a booking that was accepted
NoEvent == [type |-> "none", s |-> 0, n |-> 0, req |-> <<>>]
Event(t, s, n) == [type |-> t, s |-> s, n |-> n, req |-> <<>>]

NoTrip == [ph |-> "none", pre |-> <<>>, dels |-> <<>>, invs |-> <<>>, k |-> 0]

InitStore ==
    /\ price \in PriceLists
    /\ stock0 = stock
    /\ deliveries = {}
    /\ invoices = {}
    /\ payments = {}
    /\ nextDel = 1
    /\ nextInv = 1
    /\ nextPay = 1
    /\ cache = NoCache
    /\ pc = [s \in Sessions |-> "idle"]
    /\ loc = [s \in Sessions |-> Loc0]
    /\ ev = NoEvent
    /\ ops = 0
    /\ rt = NoTrip

\* The store after "Produkt anlegen" has stored the products.
Init ==
    /\ stock = [p \in Products |-> MaxStock]
    /\ sc = [maxq |-> MaxQty, maxops |-> MaxOps, trip |-> FALSE,
             custs |-> {3}, dates |-> {[y |-> 2024, m |-> 1, d |-> 15]}]
    /\ InitStore

InitFail ==
    /\ stock = [p \in Products |-> MaxStock]
    /\ sc = [maxq |-> MaxQty, maxops |-> MaxOpsFail, trip |-> FALSE,
             custs |-> {3}, dates |-> {[y |-> 2024, m |-> 1, d |-> 15]}]
    /\ InitStore

\* One customer of each payment term, every date of the form.
InitDate ==
    /\ stock = [p \in Products |-> MaxStock]
    /\ sc = [maxq |-> MaxQty, maxops |-> MaxOpsDate, trip |-> FALSE,
             custs |-> Customers, dates |-> Dates]
    /\ InitStore

InitSeq ==
    /\ stock \in [Products -> 1..MaxStockSeq]
    /\ sc = [maxq |-> MaxQtySeq, maxops |-> MaxOpsSeq, trip |-> TRUE,
             custs |-> {3}, dates |-> {[y |-> 2024, m |-> 1, d |-> 15]}]
    /\ InitStore

----------------------------------------------------------------------------
\* The observer rt (on when sc.trip): it follows a booking of session 1 and,
\* when the next handler run deletes one of the deliveries it made, that
\* deletion.  It reads the step just taken and changes nothing else.
IndexOfDelivery(dels, d) == CHOOSE k \in 1..Len(dels) : dels[k].id = d

TripNext ==
    IF ev'.type = "Accepted"
    THEN [ph |-> "booking", pre |-> stock, dels |-> <<>>, invs |-> <<>>, k |-> 0]
    ELSE IF pc[1] = "bk_ins" /\ pc'[1] = "bk_dec"
    THEN [rt EXCEPT !.dels = Append(@, [id |-> nextDel,
                                        prod |-> Head(loc[1].lines).prod_id,
                                        qty |-> Head(loc[1].lines).qty])]
    ELSE IF pc[1] = "bk_inv" /\ nextInv' # nextInv
    THEN [rt EXCEPT !.invs = Append(@, nextInv)]
    ELSE IF ev'.type = "Booked"
    THEN [rt EXCEPT !.ph = "booked"]
    ELSE IF pc[1] = "idle" /\ pc'[1] = "dl_row"
    THEN IF rt.ph = "booked" /\ \E k \in 1..Len(rt.dels) : rt.dels[k].id = loc'[1].del
         THEN [rt EXCEPT !.ph = "deleting",
                         !.k = IndexOfDelivery(rt.dels, loc'[1].del)]
         ELSE NoTrip
    ELSE IF ev'.type = "Deleted" /\ rt.ph = "deleting"
    THEN [rt EXCEPT !.ph = "deleted"]
    ELSE IF ev'.type \in {"PayAccepted", "NotFound", "BookingFailed", "Deleted"}
    THEN NoTrip
    ELSE rt

Trip == IF sc.trip THEN TripNext ELSE rt

----------------------------------------------------------------------------
\* Lieferung buchen.

\* What the form can submit: the selected products in the order of selection,
\* each with the quantity typed for it (min_value = 0).
Requests ==
    {<<>>}
    \cup {<<[prod |-> p, qty |-> q]>> : p \in Products, q \in 0..sc.maxq}
    \cup {r \in {<<[prod |-> p1, qty |-> q1], [prod |-> p2, qty |-> q2]>> :
                     p1 \in Products, p2 \in Products,
                     q1 \in 0..sc.maxq, q2 \in 0..sc.maxq} :
            r[1].prod # r[2].prod}

\* CheckLines with the missing-price branch skipping the line (continue) in
\* place of raising the error
RECURSIVE CheckLinesSkipUnpriced(_, _, _)
CheckLinesSkipUnpriced(sel, dfp, lines) ==
    IF sel = <<>> THEN [error |-> "none", lines |-> lines]
    ELSE LET row == Head(sel)
             unit_price == price[row.prod]
             stock_now == dfp[row.prod]
         IN IF row.qty <= 0 \/ unit_price <= 0
            THEN CheckLinesSkipUnpriced(Tail(sel), dfp, lines)
            ELSE IF row.qty > stock_now
                 THEN [error |-> "InsufficientStock", lines |-> lines]
            ELSE CheckLinesSkipUnpriced(Tail(sel), dfp,
                     Append(lines, [prod_id |-> row.prod, qty |-> row.qty,
                                    unit_price |-> unit_price]))

\* Step 1 of the handler: the loop over the selected products.  The result is
\* the error shown (or "none") and the lines collected so far.
RECURSIVE CheckLines(_, _, _)
CheckLines(sel, dfp, lines) ==
    IF sel = <<>> THEN [error |-> "none", lines |-> lines]
    ELSE LET row == Head(sel)
             \* float(row["price"] or 0); the product form stores a number
             unit_price == price[row.prod]
             stock_now == dfp[row.prod]
         IN IF row.qty <= 0 THEN CheckLines(Tail(sel), dfp, lines)
            ELSE IF unit_price <= 0
                 THEN [error |-> "MissingPrice", lines |-> lines]
            ELSE IF row.qty > stock_now
                 THEN [error |-> "InsufficientStock", lines |-> lines]
            ELSE CheckLines(Tail(sel), dfp,
                     Append(lines, [prod_id |-> row.prod, qty |-> row.qty,
                                    unit_price |-> unit_price]))

Validate(sel, dfp) ==
    LET r == CheckLines(sel, dfp, <<>>) IN
    IF r.error = "none" /\ r.lines = <<>>
    THEN [error |-> "NoQuantities", lines |-> <<>>]
    ELSE r

\* Rows the running handlers have yet to insert (the model's bounds count them)
RECURSIVE SumOver(_, _)
SumOver(S, f) ==
    IF S = {} THEN 0
    ELSE LET x == CHOOSE y \in S : TRUE IN f[x] + SumOver(S \ {x}, f)

PendingDeliveries ==
    SumOver(Sessions,
            [s \in Sessions |->
                IF pc[s] = "bk_ins" THEN Len(loc[s].lines)
                ELSE IF pc[s] \in {"bk_dec", "bk_inv"} THEN Len(loc[s].lines) - 1
                ELSE 0])

PendingPayments == Cardinality({s \in Sessions : pc[s] = "py_ins"})

\* The script run of a submitted form up to the first write: dfp is loaded
\* through the cache, the request is validated against it.
BookSubmit(s) ==
    /\ pc[s] = "idle"
    /\ \E sel \in Requests \ {<<>>}, dfp \in Reads(cache.dfp, QProducts),
          cust_id \in sc.custs, ddate \in sc.dates :
        LET r == Validate(sel, dfp)
        IN /\ cache' = [cache EXCEPT !.dfp = <<dfp>>]
           /\ IF r.error # "none"
              THEN /\ ev' = Event(r.error, s, Len(r.lines))
                   /\ UNCHANGED <<pc, loc, ops>>
              ELSE /\ ops < sc.maxops
                   /\ ops' = ops + 1
                   /\ nextDel + PendingDeliveries + Len(r.lines) - 1 <= MaxDeliveries
                   /\ pc' = [pc EXCEPT ![s] = "bk_ins"]
                   /\ loc' = [loc EXCEPT ![s] = [Loc0 EXCEPT !.op = "Booked",
                                                            !.lines = r.lines,
                                                            !.cust = cust_id,
                                                            !.terms = TermsOf[cust_id],
                                                            !.ddate = ddate,
                                                            !.first = nextInv]]
                   /\ ev' = [Event("Accepted", s, Len(r.lines)) EXCEPT !.req = sel]
    /\ UNCHANGED <<stock, price, stock0, sc, deliveries, invoices, payments,
                   nextDel, nextInv, nextPay>>
    /\ rt' = Trip

\* execute("INSERT INTO deliveries ...")
BookInsert(s) ==
    /\ pc[s] = "bk_ins"
    /\ LET line == Head(loc[s].lines) IN
       deliveries' = deliveries \cup
           {[id |-> nextDel, ddate |-> loc[s].ddate, customer_id |-> loc[s].cust,
             product_id |-> line.prod_id, qty |-> line.qty,
             unit_price |-> line.unit_price]}
    /\ nextDel' = nextDel + 1
    /\ pc' = [pc EXCEPT ![s] = "bk_dec"]
    /\ ev' = NoEvent
    /\ UNCHANGED <<stock, price, stock0, sc, ops, invoices, payments, nextInv, nextPay,
                   cache, loc>>
    /\ rt' = Trip

\* execute("UPDATE products SET stock = stock - :q WHERE id=:pid")
BookDecrement(s) ==
    /\ pc[s] = "bk_dec"
    /\ LET line == Head(loc[s].lines) IN
       stock' = [stock EXCEPT ![line.prod_id] = @ - line.qty]
    /\ pc' = [pc EXCEPT ![s] = "bk_inv"]
    /\ ev' = NoEvent
    /\ UNCHANGED <<price, stock0, sc, ops, deliveries, invoices, payments,
                   nextDel, nextInv, nextPay, cache, loc>>
    /\ rt' = Trip

\* execute("INSERT INTO invoices(delivery_id, ...) VALUES ((SELECT MAX(id)
\* FROM deliveries), ...)").  With no delivery row left MAX(id) is NULL and the
\* NOT NULL column refuses the row: the exception ends the script run.
BookInvoice(s) ==
    /\ pc[s] = "bk_inv"
    /\ LET line == Head(loc[s].lines)
           rest == Tail(loc[s].lines)
       IN IF deliveries = {}
          THEN /\ pc' = [pc EXCEPT ![s] = "idle"]
               /\ loc' = [loc EXCEPT ![s] = Loc0]
               /\ ev' = Event("BookingFailed", s, 0)
               /\ UNCHANGED <<invoices, nextInv>>
          ELSE /\ invoices' = invoices \cup
                     {[id |-> nextInv,
                       delivery_id |-> MaxOf({d.id : d \in deliveries}),
                       total |-> InvoiceTotal(line.unit_price, line.qty),
                       issued_at |-> loc[s].ddate,
                       due_at |-> DueDate(loc[s].ddate, loc[s].terms),
                       status |-> "open"]}
               /\ nextInv' = nextInv + 1
               /\ loc' = [loc EXCEPT ![s].lines = rest]
               /\ pc' = [pc EXCEPT ![s] = IF rest = <<>> THEN "rf_list"
                                                        ELSE "bk_ins"]
               /\ ev' = NoEvent
    /\ UNCHANGED <<stock, price, stock0, sc, ops, deliveries, payments, nextDel,
                   nextPay, cache>>
    /\ rt' = Trip

----------------------------------------------------------------------------
\* refresh_invoice_statuses, then st.cache_data.clear().

\* invs = load_df("SELECT id FROM invoices")
RefreshList(s) ==
    /\ pc[s] = "rf_list"
    /\ \E ids \in Reads(cache.ids, QInvoiceIds) :
       /\ loc' = [loc EXCEPT ![s].todo = SortedSeq(ids)]
       /\ pc' = [pc EXCEPT ![s] = IF ids = {} THEN "clear" ELSE "rf_read"]
       /\ cache' = [cache EXCEPT !.ids = <<ids>>]
    /\ ev' = NoEvent
    /\ UNCHANGED <<stock, price, stock0, sc, ops, deliveries, invoices, payments,
                   nextDel, nextInv, nextPay>>
    /\ rt' = Trip

\* s = invoice_status(i), itself memoised
RefreshRead(s) ==
    /\ pc[s] = "rf_read"
    /\ LET i == Head(loc[s].todo) IN
       \E st \in Reads(cache.status[i], InvoiceStatus(i)) :
          /\ loc' = [loc EXCEPT ![s].st = st]
          /\ cache' = [cache EXCEPT !.status[i] = <<st>>]
    /\ pc' = [pc EXCEPT ![s] = "rf_upd"]
    /\ ev' = NoEvent
    /\ UNCHANGED <<stock, price, stock0, sc, ops, deliveries, invoices, payments,
                   nextDel, nextInv, nextPay>>
    /\ rt' = Trip

\* execute("UPDATE invoices SET status=:s WHERE id=:i")
RefreshUpdate(s) ==
    /\ pc[s] = "rf_upd"
    /\ LET i == Head(loc[s].todo)
           rest == Tail(loc[s].todo)
       IN /\ invoices' = {IF x.id = i THEN [x EXCEPT !.status = loc[s].st]
                                      ELSE x : x \in invoices}
          /\ loc' = [loc EXCEPT ![s].todo = rest, ![s].st = "open"]
          /\ pc' = [pc EXCEPT ![s] = IF rest = <<>> THEN "clear" ELSE "rf_read"]
    /\ ev' = NoEvent
    /\ UNCHANGED <<stock, price, stock0, sc, ops, deliveries, payments,
                   nextDel, nextInv, nextPay, cache>>
    /\ rt' = Trip

\* st.success(...); st.cache_data.clear(); st.rerun().  The message is
\* "Booked", "Deleted" (with the delivery id) or "Paid".
ClearCache(s) ==
    /\ pc[s] = "clear"
    /\ cache' = NoCache
    /\ pc' = [pc EXCEPT ![s] = "idle"]
    /\ loc' = [loc EXCEPT ![s] = Loc0]
    /\ ev' = Event(loc[s].op, s, loc[s].del)
    /\ UNCHANGED <<stock, price, stock0, sc, ops, deliveries, invoices, payments,
                   nextDel, nextInv, nextPay>>
    /\ rt' = Trip

----------------------------------------------------------------------------
\* Lieferung loeschen.

\* df_last = load_df(q_last); del_id is one of its ids
DeleteClick(s) ==
    /\ pc[s] = "idle"
    /\ ops < sc.maxops
    /\ ops' = ops + 1
    /\ \E df_last \in Reads(cache.dfl, QLast) :
       /\ df_last # {}
       /\ \E del_id \in df_last :
            loc' = [loc EXCEPT ![s] = [Loc0 EXCEPT !.op = "Deleted", !.del = del_id]]
       /\ cache' = [cache EXCEPT !.dfl = <<df_last>>]
    /\ pc' = [pc EXCEPT ![s] = "dl_row"]
    /\ ev' = NoEvent
    /\ UNCHANGED <<stock, price, stock0, sc, deliveries, invoices, payments,
                   nextDel, nextInv, nextPay>>
    /\ rt' = Trip

\* drow = load_df("SELECT * FROM deliveries WHERE id=:i")
DeleteLookup(s) ==
    /\ pc[s] = "dl_row"
    /\ \E drow \in Reads(cache.drow[loc[s].del], QDelivery(loc[s].del)) :
       LET d == loc[s].del
       IN /\ cache' = [cache EXCEPT !.drow[d] = <<drow>>]
          /\ IF drow = {}
             THEN /\ pc' = [pc EXCEPT ![s] = "idle"]
                  /\ loc' = [loc EXCEPT ![s] = Loc0]
                  /\ ev' = Event("NotFound", s, d)
             ELSE /\ pc' = [pc EXCEPT ![s] = "dl_stock"]
                  /\ loc' = [loc EXCEPT ![s].prod = FirstRow(drow).product_id,
                                        ![s].qty = FirstRow(drow).qty]
                  /\ ev' = NoEvent
    /\ UNCHANGED <<stock, price, stock0, sc, ops, deliveries, invoices, payments,
                   nextDel, nextInv, nextPay>>
    /\ rt' = Trip

\* DeleteRestore putting back one carton whatever the quantity
DeleteRestoreOne(s) ==
    /\ pc[s] = "dl_stock"
    /\ stock' = [stock EXCEPT ![loc[s].prod] = @ + 1]
    /\ pc' = [pc EXCEPT ![s] = "dl_inv"]
    /\ ev' = NoEvent
    /\ UNCHANGED <<price, stock0, sc, ops, deliveries, invoices, payments,
                   nextDel, nextInv, nextPay, cache, loc>>
    /\ rt' = Trip

\* execute("UPDATE products SET stock = stock + :q WHERE id=:pid")
DeleteRestore(s) ==
    /\ pc[s] = "dl_stock"
    /\ stock' = [stock EXCEPT ![loc[s].prod] = @ + loc[s].qty]
    /\ pc' = [pc EXCEPT ![s] = "dl_inv"]
    /\ ev' = NoEvent
    /\ UNCHANGED <<price, stock0, sc, ops, deliveries, invoices, payments,
                   nextDel, nextInv, nextPay, cache, loc>>
    /\ rt' = Trip

\* inv = load_df("SELECT id FROM invoices WHERE delivery_id=:d");
\* inv_id = int(inv["id"].iloc[0]): the first row, in rowid order
DeleteFindInvoice(s) ==
    /\ pc[s] = "dl_inv"
    /\ \E inv \in Reads(cache.invof[loc[s].del], QInvoicesOf(loc[s].del)) :
       LET d == loc[s].del
       IN /\ cache' = [cache EXCEPT !.invof[d] = <<inv>>]
          /\ IF inv = {}
             THEN /\ pc' = [pc EXCEPT ![s] = "dl_del"]
                  /\ UNCHANGED loc
             ELSE /\ pc' = [pc EXCEPT ![s] = "dl_pay"]
                  /\ loc' = [loc EXCEPT ![s].inv = MinOf(inv)]
    /\ ev' = NoEvent
    /\ UNCHANGED <<stock, price, stock0, sc, ops, deliveries, invoices, payments,
                   nextDel, nextInv, nextPay>>
    /\ rt' = Trip

\* execute("DELETE FROM payments WHERE invoice_id=:i")
DeletePayments(s) ==
    /\ pc[s] = "dl_pay"
    /\ payments' = {p \in payments : p.invoice_id # loc[s].inv}
    /\ pc' = [pc EXCEPT ![s] = "dl_dinv"]
    /\ ev' = NoEvent
    /\ UNCHANGED <<stock, price, stock0, sc, ops, deliveries, invoices,
                   nextDel, nextInv, nextPay, cache, loc>>
    /\ rt' = Trip

\* execute("DELETE FROM invoices WHERE id=:i")
DeleteInvoice(s) ==
    /\ pc[s] = "dl_dinv"
    /\ invoices' = {i \in invoices : i.id # loc[s].inv}
    /\ pc' = [pc EXCEPT ![s] = "dl_del"]
    /\ ev' = NoEvent
    /\ UNCHANGED <<stock, price, stock0, sc, ops, deliveries, payments,
                   nextDel, nextInv, nextPay, cache, loc>>
    /\ rt' = Trip

\* execute("DELETE FROM deliveries WHERE id=:i")
DeleteDelivery(s) ==
    /\ pc[s] = "dl_del"
    /\ deliveries' = {d \in deliveries : d.id # loc[s].del}
    /\ pc' = [pc EXCEPT ![s] = "clear"]
    /\ ev' = NoEvent
    /\ UNCHANGED <<stock, price, stock0, sc, ops, invoices, payments,
                   nextDel, nextInv, nextPay, cache, loc>>
    /\ rt' = Trip

----------------------------------------------------------------------------
\* Zahlung buchen.

\* amount > open_amt + 1e-6
Overpays(amount, open_amt) == amount > open_amt + Eps

\* dfi = load_df(q); inv_id is one of its rows, open_amt its "offen"
PaySubmit(s) ==
    /\ pc[s] = "idle"
    /\ \E dfi \in Reads(cache.dfi, QInvoiceList) :
       /\ dfi # {}
       /\ cache' = [cache EXCEPT !.dfi = <<dfi>>]
       /\ \E row \in dfi, amount \in Amounts :
            IF Overpays(amount, row.offen)
            THEN /\ ev' = Event("Overpayment", s, row.rechnung)
                 /\ UNCHANGED <<pc, loc, ops>>
            ELSE /\ ops < sc.maxops
                 /\ ops' = ops + 1
                 /\ nextPay + PendingPayments <= MaxPayments
                 /\ pc' = [pc EXCEPT ![s] = "py_ins"]
                 /\ loc' = [loc EXCEPT ![s] = [Loc0 EXCEPT !.op = "Paid",
                                                          !.inv = row.rechnung,
                                                          !.amount = amount]]
                 /\ ev' = Event("PayAccepted", s, row.rechnung)
    /\ UNCHANGED <<stock, price, stock0, sc, deliveries, invoices, payments,
                   nextDel, nextInv, nextPay>>
    /\ rt' = Trip

\* PayInsert taking one carton of product 1 from the stock as well
PayInsertTakesStock(s) ==
    /\ pc[s] = "py_ins"
    /\ payments' = payments \cup
           {[id |-> nextPay, invoice_id |-> loc[s].inv, amount |-> loc[s].amount]}
    /\ nextPay' = nextPay + 1
    /\ stock' = [stock EXCEPT ![1] = @ - 1]
    /\ pc' = [pc EXCEPT ![s] = "rf_list"]
    /\ ev' = NoEvent
    /\ UNCHANGED <<price, stock0, sc, ops, deliveries, invoices,
                   nextDel, nextInv, cache, loc>>
    /\ rt' = Trip

\* execute("INSERT INTO payments(invoice_id,amount,...) ...")
PayInsert(s) ==
    /\ pc[s] = "py_ins"
    /\ payments' = payments \cup
           {[id |-> nextPay, invoice_id |-> loc[s].inv, amount |-> loc[s].amount]}
    /\ nextPay' = nextPay + 1
    /\ pc' = [pc EXCEPT ![s] = "rf_list"]
    /\ ev' = NoEvent
    /\ UNCHANGED <<stock, price, stock0, sc, ops, deliveries, invoices,
                   nextDel, nextInv, cache, loc>>
    /\ rt' = Trip

----------------------------------------------------------------------------
\* A script run that submits nothing still loads the three tables it shows.
Render ==
    /\ \E p \in Reads(cache.dfp, QProducts), l \in Reads(cache.dfl, QLast),
          i \in Reads(cache.dfi, QInvoiceList) :
            cache' = [cache EXCEPT !.dfp = <<p>>, !.dfl = <<l>>, !.dfi = <<i>>]
    /\ ev' = NoEvent
    /\ UNCHANGED <<stock, price, stock0, sc, ops, deliveries, invoices, payments,
                   nextDel, nextInv, nextPay, pc, loc>>
    /\ rt' = Trip

----------------------------------------------------------------------------
\* execute() raises (the store refuses or loses the transaction): nothing is
\* committed by this call, the script run ends, the cache is not cleared.
WritePositions ==
    {"bk_ins", "bk_dec", "bk_inv", "rf_upd", "dl_stock", "dl_pay", "dl_dinv",
     "dl_del", "py_ins"}

ExecuteFails(s) ==
    /\ pc[s] \in WritePositions
    /\ pc' = [pc EXCEPT ![s] = "idle"]
    /\ loc' = [loc EXCEPT ![s] = Loc0]
    /\ ev' = Event(Failed(loc[s].op), s, 0)
    /\ UNCHANGED <<stock, price, stock0, sc, ops, deliveries, invoices, payments,
                   nextDel, nextInv, nextPay, cache>>
    /\ rt' = Trip

----------------------------------------------------------------------------
Step(s) ==
    \/ BookSubmit(s)
    \/ BookInsert(s)
    \/ BookDecrement(s)
    \/ BookInvoice(s)
    \/ RefreshList(s)
    \/ RefreshRead(s)
    \/ RefreshUpdate(s)
    \/ ClearCache(s)
    \/ DeleteClick(s)
    \/ DeleteLookup(s)
    \/ DeleteRestore(s)
    \/ DeleteFindInvoice(s)
    \/ DeletePayments(s)
    \/ DeleteInvoice(s)
    \/ DeleteDelivery(s)
    \/ PaySubmit(s)
    \/ PayInsert(s)

\* Several sessions, their script runs interleaved statement by statement.
Next ==
    \/ \E s \in Sessions : Step(s)
    \/ Render

Spec == Init /\ [][Next]_vars

\* One session alone, on a store whose transactions can fail.
NextFail ==
    \/ Step(1)
    \/ ExecuteFails(1)
    \/ Render

FailSpec == InitFail /\ [][NextFail]_vars

\* One session alone: each script run ends before the next one starts.
NextSeq ==
    \/ Step(1)
    \/ Render

SeqSpec == InitSeq /\ [][NextSeq]_vars

\* One session alone, booking for every customer on every date of the form.
DateSpec == InitDate /\ [][NextSeq]_vars

----------------------------------------------------------------------------
\* Properties.

AllIdle == \A s \in Sessions : pc[s] = "idle"

\* C1: no product's stock is negative.
C1_StockNonNegative == \A p \in Products : stock[p] >= 0

\* C2: the payments of an invoice sum to at most its total plus the tolerance.
C2_NoOverpayment ==
    \A i \in invoices : SumPaid(i.id) <= i.total + Eps

\* C3: with no handler running, an invoice's stored status is open iff nothing
\* is paid, paid iff the payments reach the total, partial otherwise.
C3_StatusDerived ==
    AllIdle =>
        \A i \in invoices :
            /\ i.status \in {"open", "partial", "paid"}
            /\ i.status = "open" <=> SumPaid(i.id) = 0
            /\ i.status = "paid" <=> SumPaid(i.id) >= i.total

\* C4: with no handler running, every delivery has exactly one invoice and
\* every invoice refers to a delivery that exists.
C4_OneInvoicePerDelivery ==
    AllIdle =>
        /\ \A d \in deliveries :
              Cardinality({i \in invoices : i.delivery_id = d.id}) = 1
        /\ \A i \in invoices : \E d \in deliveries : d.id = i.delivery_id

\* C5: when the first booking of a behaviour ends in a storage error, the
\* store is as it was before that booking: no delivery, no invoice, the stock
\* untouched.
C5_AllOrNothing ==
    (ev.type = "BookingFailed" /\ ops = 1) =>
        /\ deliveries = {}
        /\ invoices = {}
        /\ stock = stock0

\* C6: when a booking decrements the stock, the quantity it takes is at most
\* the stock the store holds at that moment.
C6_CheckedAtDecrement ==
    \A s \in Sessions :
        pc[s] = "bk_dec" =>
            Head(loc[s].lines).qty <= stock[Head(loc[s].lines).prod_id]

\* C7: a booking followed at once by the deletion of a delivery it made leaves
\* the product's stock at its value before the booking, and leaves neither that
\* delivery, nor its invoice, nor a payment of that invoice.
C7_RoundTrip ==
    rt.ph = "deleted" =>
        LET d == rt.dels[rt.k]
            i == rt.invs[rt.k]
        IN /\ stock[d.prod] = rt.pre[d.prod]
           /\ \A x \in deliveries : x.id # d.id
           /\ \A x \in invoices : x.id # i /\ x.delivery_id # d.id
           /\ \A x \in payments : x.invoice_id # i

C7_Witness ==
    /\ rt.ph = "deleted"
    /\ rt.dels[rt.k].qty = 2
    /\ Len(rt.dels) = 2

\* C8: when a deletion removes the delivery row, no invoice refers to that
\* delivery any more and no payment refers to an invoice that is gone.
C8_DeleteEffect ==
    [][\A s \in Sessions :
          (pc[s] = "dl_del" /\ pc'[s] = "clear") =>
              /\ \A d \in deliveries' : d.id # loc[s].del
              /\ \A i \in invoices' : i.delivery_id # loc[s].del
              /\ \A p \in payments' : \E i \in invoices' : i.id = p.invoice_id]_vars

\* C9: a payment is accepted only if its amount is at most the open balance
\* of the invoice in the store, plus the tolerance.
C9_OverpaymentRejected ==
    ev.type = "PayAccepted" =>
        \A i \in invoices :
            i.id = ev.n => ~(loc[ev.s].amount > i.total - SumPaid(i.id) + Eps)

\* C10: a request with a line of quantity > 0 for a product without a price is
\* never accepted, and the step that rejects it changes no table and starts no
\* write.
HasUnpricedLine(req) ==
    \E k \in 1..Len(req) : req[k].qty > 0 /\ price[req[k].prod] <= 0

C10_MissingPriceRejected ==
    [][/\ ev'.type = "Accepted" => ~HasUnpricedLine(ev'.req)
       /\ ev'.type = "MissingPrice" =>
              /\ UNCHANGED <<stock, deliveries, invoices, payments>>
              /\ pc'[ev'.s] = "idle"
              /\ pc' = pc]_vars

C10_Witness == ev.type = "MissingPrice" /\ ev.n = 1

\* C11: a request with a line whose quantity exceeds the stock the store holds
\* is never accepted, and the step that shows the insufficient-stock error
\* changes no table and starts no write.
HasOverstockLine(req) ==
    \E k \in 1..Len(req) : req[k].qty > stock[req[k].prod]

C11_InsufficientStockRejected ==
    [][/\ ev'.type = "Accepted" => ~HasOverstockLine(ev'.req)
       /\ ev'.type = "InsufficientStock" =>
              /\ UNCHANGED <<stock, deliveries, invoices, payments>>
              /\ pc' = pc]_vars

\* C12: when the delivery a deletion looks up is not in the store, the
\* deletion ends with NotFound and changes no table.
C12_DeleteNotFound ==
    [][\A s \in Sessions :
          (pc[s] = "dl_row" /\ pc'[s] # "dl_row" /\ QDelivery(loc[s].del) = {}) =>
              /\ ev'.type = "NotFound"
              /\ pc'[s] = "idle"
              /\ UNCHANGED <<stock, deliveries, invoices, payments>>]_vars

\* C13: every invoice's total is the quantity times the unit price of the
\* delivery it refers to, and no step changes the total of an invoice that
\* stays in the store.
C13_TotalFixed ==
    [][/\ \A i \in invoices' : \A d \in deliveries' :
              d.id = i.delivery_id => i.total = d.qty * d.unit_price
       /\ \A i \in invoices : \A j \in invoices' :
              j.id = i.id => j.total = i.total]_vars

\* C14: no step of a booking changes the payments or an invoice that was in
\* the store before the booking (its status and total stay), and every invoice
\* a booking adds has status open.
C14_BookingFrame ==
    [][\A s \in Sessions :
          (loc[s].op = "Booked" /\ pc'[s] # pc[s]) =>
              /\ payments' = payments
              /\ \A i \in invoices : i.id < loc[s].first => i \in invoices'
              /\ \A j \in invoices' :
                    j.id \notin QInvoiceIds => j.status = "open"]_vars

\* C15: the stock changes only when a booking takes the quantity of its line
\* or a deletion puts back the quantity of its delivery; delivery rows change
\* only in a booking's insert or a deletion's delete; a payment, accepted or
\* rejected, and a status recomputation leave stock and deliveries as they are.
C15_StockFrame ==
    [][/\ stock' # stock =>
              \E s \in Sessions :
                 \/ /\ pc[s] = "bk_dec" /\ pc'[s] = "bk_inv"
                    /\ stock' = [stock EXCEPT ![Head(loc[s].lines).prod_id] =
                                                  @ - Head(loc[s].lines).qty]
                 \/ /\ pc[s] = "dl_stock" /\ pc'[s] = "dl_inv"
                    /\ stock' = [stock EXCEPT ![loc[s].prod] = @ + loc[s].qty]
       /\ deliveries' # deliveries =>
              \E s \in Sessions :
                 \/ pc[s] = "bk_ins" /\ pc'[s] = "bk_dec"
                 \/ pc[s] = "dl_del" /\ pc'[s] = "clear"
       /\ ev'.type \in {"PayAccepted", "Overpayment"} =>
              UNCHANGED <<stock, deliveries>>
       /\ \A s \in Sessions :
              (pc'[s] # pc[s] /\ (loc[s].op = "Paid"
                                  \/ pc[s] \in {"rf_list", "rf_read", "rf_upd"})) =>
                  UNCHANGED <<stock, deliveries>>]_vars

C15_Witness ==
    /\ ev.type = "Paid"
    /\ \E i \in invoices : i.status = "paid"
    /\ \E p \in Products : stock[p] < stock0[p]

\* C16: every read a handler makes returns what the store holds at that
\* moment: the products frame of a booking, the invoice list of a payment, the
\* list, the lookup and the invoice lookup of a deletion, and the id list and
\* the statuses a status recomputation reads.
C16_NoStaleRead ==
    [][/\ ev'.type \in {"Accepted", "MissingPrice", "InsufficientStock",
                        "NoQuantities"} => cache'.dfp = <<QProducts>>
       /\ ev'.type \in {"PayAccepted", "Overpayment"} =>
              cache'.dfi = <<QInvoiceList>>
       /\ \A s \in Sessions :
              /\ (pc[s] = "rf_list" /\ pc'[s] # "rf_list") =>
                     cache'.ids = <<QInvoiceIds>>
              /\ (pc[s] = "rf_read" /\ pc'[s] = "rf_upd") =>
                     cache'.status[Head(loc[s].todo)] =
                         <<InvoiceStatus(Head(loc[s].todo))>>
              /\ (pc[s] = "idle" /\ pc'[s] = "dl_row") => cache'.dfl = <<QLast>>
              /\ (pc[s] = "dl_row" /\ pc'[s] # "dl_row") =>
                     cache'.drow[loc[s].del] = <<QDelivery(loc[s].del)>>
              /\ (pc[s] = "dl_inv" /\ pc'[s] # "dl_inv") =>
                     cache'.invof[loc[s].del] = <<QInvoicesOf(loc[s].del)>>]_vars

\* C17: every invoice is issued on the date of the delivery it refers to and
\* is due as many calendar days later as the payment terms of the delivery's
\* customer, counted through the months of the calendar.
DaysIn(y, m) ==
    IF m = 2 THEN (IF y % 400 = 0 \/ (y % 4 = 0 /\ y % 100 # 0) THEN 29 ELSE 28)
    ELSE IF m \in {4, 6, 9, 11} THEN 30
    ELSE 31

FirstOfNextMonth(dt) ==
    IF dt.m < 12 THEN [y |-> dt.y, m |-> dt.m + 1, d |-> 1]
    ELSE [y |-> dt.y + 1, m |-> 1, d |-> 1]

\* n days after dt: within the month when it has that many days left, else on
\* from the first of the next month with the days used up taken off
RECURSIVE DaysAfter(_, _)
DaysAfter(dt, n) ==
    IF dt.d + n <= DaysIn(dt.y, dt.m) THEN [dt EXCEPT !.d = @ + n]
    ELSE DaysAfter(FirstOfNextMonth(dt), n - (DaysIn(dt.y, dt.m) - dt.d + 1))

C17_DueDate ==
    \A i \in invoices : \A d \in deliveries :
        d.id = i.delivery_id =>
            /\ i.issued_at = d.ddate
            /\ i.due_at = DaysAfter(i.issued_at, TermsOf[d.customer_id])

\* an invoice issued on 29 February and due in another month, one issued on the
\* last day of a year, and one with terms 0
C17_Witness ==
    /\ \E i \in invoices :
          i.issued_at = [y |-> 2024, m |-> 2, d |-> 29] /\ i.due_at.m = 4
    /\ \E i \in invoices :
          i.issued_at = [y |-> 2023, m |-> 12, d |-> 31] /\ i.due_at.y = 2024

\* C18: with no handler running, a product's stock plus the quantities of its
\* deliveries in the store is the stock the product started with.
RECURSIVE SumQty(_)
SumQty(S) ==
    IF S = {} THEN 0
    ELSE LET d == CHOOSE x \in S : TRUE IN d.qty + SumQty(S \ {d})

C18_StockConserved ==
    AllIdle =>
        \A p \in Products :
            stock[p] + SumQty({d \in deliveries : d.product_id = p}) = stock0[p]

\* C19: a deletion's DELETE of the invoice leaves no payment of that invoice,
\* and its DELETE of the delivery leaves no invoice of that delivery.
C19_DeleteOrder ==
    [][\A s \in Sessions :
          /\ (pc[s] = "dl_dinv" /\ pc'[s] = "dl_del") =>
                 \A p \in payments' : p.invoice_id # loc[s].inv
          /\ (pc[s] = "dl_del" /\ pc'[s] = "clear") =>
                 \A i \in invoices' : i.delivery_id # loc[s].del]_vars

\* C20: every payment refers to an invoice that is in the store.
C20_NoOrphanPayment ==
    \A p \in payments : \E i \in invoices : i.id = p.invoice_id

\* The order of the stored statuses
StatusRank(st) ==
    IF st = "open" THEN 0 ELSE IF st = "partial" THEN 1 ELSE 2

\* C21: across every step, an invoice that stays in the store keeps or raises
\* the sum of its payments and keeps or raises its stored status in the order
\* open < partial < paid, so a stored status of paid stays paid.
C21_MonotonicPayments ==
    [][\A i \in invoices : \A j \in invoices' :
          j.id = i.id =>
              /\ SumAmounts({p \in payments' : p.invoice_id = i.id})
                     >= SumPaid(i.id)
              /\ StatusRank(j.status) >= StatusRank(i.status)]_vars

====
